---------------------------- MODULE Spec2Model ----------------------------
(***************************************************************************)
(* Model of the site-hygiene scripts of quantimodo-info-site:              *)
(*   - cleanup-wp-legacy (two variants: the 4-rule table of part_000 and   *)
(*     the 7-rule table of part_001), and                                  *)
(*   - scripts/seo-audit.js.                                               *)
(* Text is modelled as a sequence of tokens.  For HTML documents a token   *)
(* is one literal piece of markup (a marker of a removal pattern, a        *)
(* newline, a blank, other text); for metadata values a token is one       *)
(* character.  Regular expressions are evaluated by a backtracking matcher *)
(* with the priorities of the JavaScript engine (greedy / lazy             *)
(* repetition, look-ahead, left-most match, global scan).                  *)
(***************************************************************************)
EXTENDS Integers, Sequences, FiniteSets, TLC

VARIABLES
    \* ---- cleanup run (a dry run and a real run started on the same inputs)
    script,       \* which cleanup script runs: "part_000" or "part_001"
    disk0,        \* the file contents both runs start from
    unreadable,   \* files whose readFileSync throws
    unwritable,   \* files whose writeFileSync throws
    runs,         \* per mode ("dry", "real"): position, stats, disk, log,
                  \* files written back, what cleanupContent returned
    \* ---- cleanupContent applied twice to one document
    k_script, k_pc, k_doc, k_first, k_second,
    \* ---- audit run
    a_pc, a_n, a_i, a_minSeverity, a_stats, a_seen, a_thrown

cvars == <<script, disk0, unreadable, unwritable, runs>>
kvars == <<k_script, k_pc, k_doc, k_first, k_second>>
avars == <<a_pc, a_n, a_i, a_minSeverity, a_stats, a_seen, a_thrown>>
vars  == <<cvars, kvars, avars>>

(***************************************************************************)
(* Bounds of the model.                                                    *)
(***************************************************************************)
\* number of files the cleanup glob yields at most
MaxFiles == 2
\* number of files the audit glob yields at most
MaxAuditFiles == 2
\* number of pieces a document of the two-pass check is built from
MaxChunks == 3
\* stand-in for the engine's limit on the number of spread arguments
MaxSpreadArgs == 2

Min(a, b) == IF a < b THEN a ELSE b

\* F applied to the value of v, with v evaluated once
With(v, F(_)) == CHOOSE r \in { F(x) : x \in {v} } : TRUE

RECURSIVE SumOver(_, _)
SumOver(f, S) ==
    IF S = {} THEN 0
    ELSE LET x == CHOOSE y \in S : TRUE IN f[x] + SumOver(f, S \ {x})

RECURSIVE Flatten(_)
Flatten(ss) == IF ss = <<>> THEN <<>> ELSE Head(ss) \o Flatten(Tail(ss))

(***************************************************************************)
(* Tokens.                                                                 *)
(***************************************************************************)
\* whitespace: a blank and a newline (the class \s)
WS == {"sp", "nl"}

\* markup tokens of HTML documents
\*   SO  <section class="main-color container-wrap social-share-wrap">
\*   SC  </section>
\*   RO1 <section class="container-wrap">   RO2 <div class="container">
\*   RO3 <div class="related-wrap">
\*   NO  <nav class="pagination-sticky      NC  </nav><!-- .navigation -->
\*   BC  <!-- Begin Comments -->            EC  <!-- End Comments -->
\*   AO  <div class="article-meta">         AC  </div><!--end article-meta-->
\*   GSa <style    GSb >#go-pricing-table   GSC </style>
\*   GHa <div id="go-pricing-table-   dg (a digit)   GHb " class="go-pricing"
\*   GHC </div></div></div></div></div>
\*   txt any other text without markup
Markup == {"SO", "SC", "RO1", "RO2", "RO3", "NO", "NC", "BC", "EC", "AO", "AC",
           "GSa", "GSb", "GSC", "GHa", "dg", "GHb", "GHC", "txt"}

\* tokens of the audit's content scan
\*   h1 <h1 ...>   img <img ... alt="text">   imgNoAlt <img> without alt=
\*   imgEmptyAlt <img alt="">
AuditMarkup == {"h1", "img", "imgNoAlt", "imgEmptyAlt"}

Lower == {"a", "b", "c", "d", "e", "f", "g", "h", "i", "j", "k", "l", "m",
          "n", "o", "p", "q", "r", "s", "t", "u", "v", "w", "x", "y", "z"}
Upper == {"A", "B", "C", "D", "E", "F", "G", "H", "I", "J", "K", "L", "M",
          "N", "O", "P", "Q", "R", "S", "T", "U", "V", "W", "X", "Y", "Z"}
Digits == {"0", "1", "2", "3", "4", "5", "6", "7", "8", "9"}
\* the class \w
WordChars == Lower \cup Upper \cup Digits \cup {"_"}
\* characters of metadata values; " " is the blank of \s
Chars == WordChars \cup {" ", ".", "!", "?", "\"", "&", "#", ";", ",", "-"}
CharWS == {" "}

Sigma == WS \cup Markup \cup AuditMarkup \cup Chars

\* tokens whose text holds no '>' (the class [^>])
NoGt == {"sp", "nl", "txt", "NO", "GSa", "GHa", "dg"}

(***************************************************************************)
(* Regular expressions: a pattern is a sequence of items.                  *)
(***************************************************************************)
Rep(S, lo, hi, unbounded, isGreedy) ==
    [kind |-> "rep", set |-> S, min |-> lo, max |-> hi, unb |-> unbounded,
     greedy |-> isGreedy]
Lit(t)     == Rep({t}, 1, 1, FALSE, TRUE)
OneOf(S)   == Rep(S, 1, 1, FALSE, TRUE)
Star(S)    == Rep(S, 0, 0, TRUE, TRUE)
Plus(S)    == Rep(S, 1, 0, TRUE, TRUE)
AnyLazy    == Rep(Sigma, 0, 0, TRUE, FALSE)
Ahead(S)   == [kind |-> "ahead", set |-> S, min |-> 0, max |-> 0, unb |-> FALSE,
               greedy |-> TRUE]
AtEnd      == [kind |-> "end", set |-> {}, min |-> 0, max |-> 0, unb |-> FALSE,
               greedy |-> TRUE]

\* length of the longest run of tokens of S that starts at pos
RECURSIVE RunLen(_, _, _)
RunLen(doc, pos, S) ==
    IF pos > Len(doc) \/ doc[pos] \notin S THEN 0
    ELSE 1 + RunLen(doc, pos + 1, S)

\* MatchFrom: the position after the match of items k.. of pat at pos, in the
\* order a backtracking engine tries them; 0 when there is none.
RECURSIVE MatchFrom(_, _, _, _)
RECURSIVE TryRep(_, _, _, _, _, _)
MatchFrom(pat, k, doc, pos) ==
    IF k > Len(pat) THEN pos
    ELSE LET it == pat[k] IN
         IF it.kind = "end"
         THEN IF pos = Len(doc) + 1 THEN MatchFrom(pat, k + 1, doc, pos) ELSE 0
         ELSE IF it.kind = "ahead"
         THEN IF pos <= Len(doc) /\ doc[pos] \in it.set
              THEN MatchFrom(pat, k + 1, doc, pos) ELSE 0
         ELSE LET run == RunLen(doc, pos, it.set)
                  hi  == IF it.unb THEN run ELSE Min(run, it.max)
              IN IF hi < it.min THEN 0
                 ELSE TryRep(pat, k, doc, pos, IF it.greedy THEN hi ELSE it.min, hi)

TryRep(pat, k, doc, pos, n, hi) ==
    With(MatchFrom(pat, k + 1, doc, pos + n), LAMBDA r :
      IF r # 0 THEN r
      ELSE IF pat[k].greedy
           THEN IF n = pat[k].min THEN 0 ELSE TryRep(pat, k, doc, pos, n - 1, hi)
           ELSE IF n = hi THEN 0 ELSE TryRep(pat, k, doc, pos, n + 1, hi))

\* a regex is a sequence of alternatives, tried in order at each position
RECURSIVE MatchAlt(_, _, _, _)
MatchAlt(re, a, doc, pos) ==
    IF a > Len(re) THEN 0
    ELSE LET r == MatchFrom(re[a], 1, doc, pos) IN
         IF r # 0 THEN r ELSE MatchAlt(re, a + 1, doc, pos)

\* String.prototype.match with the g flag: the left-most non-overlapping
\* matches, each as <<first, onePastLast>>.  The scan resumes after a match
\* (one position further after an empty match).
RECURSIVE Scan(_, _, _)
Scan(re, doc, pos) ==
    With({p \in pos..(Len(doc) + 1) : MatchAlt(re, 1, doc, p) # 0}, LAMBDA starts :
      IF starts = {} THEN <<>>
      ELSE With(CHOOSE q \in starts : \A o \in starts : q <= o, LAMBDA p :
             With(MatchAlt(re, 1, doc, p), LAMBDA e :
               <<<<p, e>>>> \o Scan(re, doc, IF e = p THEN p + 1 ELSE e))))

MatchAll(re, doc) == Scan(re, doc, 1)

\* RegExp.prototype.test / match without g: is there a match anywhere
Test(re, doc) == \E pos \in 1..(Len(doc) + 1) : MatchAlt(re, 1, doc, pos) # 0

\* String.prototype.replace(pattern, ''): the text outside the matches
RECURSIVE Outside(_, _, _)
Outside(doc, spans, pos) ==
    IF spans = <<>> THEN SubSeq(doc, pos, Len(doc))
    ELSE SubSeq(doc, pos, Head(spans)[1] - 1)
         \o Outside(doc, Tail(spans), Head(spans)[2])

ReplaceAll(re, doc) == Outside(doc, MatchAll(re, doc), 1)

(***************************************************************************)
(* Cleanup: the table of removal patterns.                                 *)
(***************************************************************************)
SocialShare ==
    [name |-> "Social Share Section",
     pattern |-> << <<Lit("SO"), AnyLazy, Lit("SC"), Star(WS), Ahead({"nl"})>> >>]
RelatedArticles ==
    [name |-> "Related Articles Carousel",
     pattern |-> << <<Lit("RO1"), Star(WS), Lit("RO2"), Star(WS), Lit("RO3"),
                      AnyLazy, Lit("SC"), Star(WS), Ahead({"nl"})>> >>]
Pagination ==
    [name |-> "Pagination Navigation",
     pattern |-> << <<Star(WS), Lit("NO"), AnyLazy, Lit("NC"), Star(WS)>> >>]
Comments ==
    [name |-> "Comments Section",
     pattern |-> << <<Star(WS), Lit("BC"), AnyLazy, Lit("EC"), Star(WS)>> >>]
ArticleMeta ==
    [name |-> "Article Meta Section",
     pattern |-> << <<Star(WS), Lit("AO"), AnyLazy, Lit("AC"), Star(WS)>> >>]
GoPricingStyles ==
    [name |-> "Go Pricing Table Styles",
     pattern |-> << <<Lit("GSa"), Star(NoGt), Lit("GSb"), AnyLazy, Lit("GSC")>> >>]
GoPricingHtml ==
    [name |-> "Go Pricing Table HTML",
     pattern |-> << <<Lit("GHa"), Plus({"dg"}), Lit("GHb"), AnyLazy, Lit("GHC")>> >>]

Scripts == {"part_000", "part_001"}

REMOVAL_PATTERNS(s) ==
    IF s = "part_000"
    THEN <<SocialShare, RelatedArticles, Pagination, Comments>>
    ELSE <<SocialShare, RelatedArticles, Pagination, Comments, ArticleMeta,
           GoPricingStyles, GoPricingHtml>>

RuleNames == {"Social Share Section", "Related Articles Carousel",
              "Pagination Navigation", "Comments Section",
              "Article Meta Section", "Go Pricing Table Styles",
              "Go Pricing Table HTML"}

\* stats.removalsByType: an absent key reads as 0
NoRemovals == [n \in RuleNames |-> 0]

\* totalRemovals += count, as a plausible slip: one per rule that matched
AddCount_once(total, count) == total + 1
\* totalRemovals += count
AddCount(total, count) == total + count

\* cleanupContent: the loop over the table, from rule r on.  acc holds
\* modified, totalRemovals and the amounts added to stats.removalsByType.
RECURSIVE CleanupFrom(_, _, _)
CleanupFrom(table, r, acc) ==
    IF r > Len(table) THEN acc
    ELSE With(Len(MatchAll(table[r].pattern, acc.modified)), LAMBDA count :
           IF count > 0
           THEN With([modified      |-> ReplaceAll(table[r].pattern, acc.modified),
                      totalRemovals |-> AddCount(acc.totalRemovals, count),
                      added         |-> [acc.added EXCEPT ![table[r].name] = @ + count]],
                     LAMBDA next : CleanupFrom(table, r + 1, next))
           ELSE CleanupFrom(table, r + 1, acc))

cleanupContent(s, content) ==
    With(content, LAMBDA text :
      CleanupFrom(REMOVAL_PATTERNS(s), 1,
                  [modified |-> text, totalRemovals |-> 0, added |-> NoRemovals]))

(***************************************************************************)
(* Documents.                                                              *)
(***************************************************************************)
\* pieces of legacy pages: whole fragments, separators and stray markers
Pieces == { <<"nl">>, <<"sp">>, <<"txt">>,
            <<"SO", "txt", "SC">>,
            <<"RO1", "nl", "RO2", "sp", "RO3", "txt", "SC">>,
            <<"NO", "txt", "NC">>,
            <<"BC", "txt", "EC">>,
            <<"AO", "txt", "AC">>,
            <<"GSa", "sp", "txt", "GSb", "txt", "GSC">>,
            <<"GHa", "dg", "dg", "GHb", "txt", "GHC">>,
            <<"SC">>, <<"BC">>, <<"EC">> }

ChunkLists == UNION { [1..n -> Pieces] : n \in 0..MaxChunks }
Docs == { Flatten(cl) : cl \in ChunkLists }

(***************************************************************************)
(* cleanupContent applied to a document and then to its own output.        *)
(***************************************************************************)
NoOutput == [modified |-> <<>>, totalRemovals |-> 0, added |-> NoRemovals]

InitContent ==
    /\ k_script \in Scripts
    /\ k_doc \in Docs
    /\ k_pc = "fresh"
    /\ k_first = NoOutput
    /\ k_second = NoOutput

FirstPass ==
    /\ k_pc = "fresh"
    /\ k_first' = cleanupContent(k_script, k_doc)
    /\ k_pc' = "once"
    /\ UNCHANGED <<k_script, k_doc, k_second, cvars, avars>>

SecondPass ==
    /\ k_pc = "once"
    /\ k_second' = cleanupContent(k_script, k_first.modified)
    /\ k_pc' = "twice"
    /\ UNCHANGED <<k_script, k_doc, k_first, cvars, avars>>

IdleContent ==
    /\ k_script = "part_001"
    /\ k_doc = <<>>
    /\ k_pc = "idle"
    /\ k_first = NoOutput
    /\ k_second = NoOutput


(***************************************************************************)
(* The cleanup run: main and processFile, for a dry run and a real run     *)
(* that start on the same files.                                           *)
(***************************************************************************)
Modes == {"dry", "real"}
dryRun(m) == m = "dry"

\* contents of the files the glob yields
FileContents == { <<"txt", "nl">>,
                  <<"txt", "nl", "SO", "txt", "SC", "nl", "NO", "NC", "nl",
                    "AO", "txt", "AC">>,
                  <<"BC", "txt", "EC", "txt", "sp", "BC", "EC", "nl">>,
                  <<"SO", "SC", "GSa", "GSb", "GSC", "nl">> }

Files == DOMAIN disk0

NewRun ==
    [pc |-> "start", i |-> 1, filesScanned |-> 0, filesModified |-> 0,
     removalsByType |-> NoRemovals, disk |-> disk0, log |-> <<>>,
     written |-> {}, results |-> <<>>]

InitCleanup ==
    /\ script \in Scripts
    /\ \E n \in 0..MaxFiles : disk0 \in [1..n -> FileContents]
    /\ unreadable \in SUBSET (DOMAIN disk0)
    /\ unwritable \in SUBSET (DOMAIN disk0)
    /\ runs = [m \in Modes |-> NewRun]

IdleCleanup ==
    /\ script = "part_001"
    /\ disk0 = <<>>
    /\ unreadable = {}
    /\ unwritable = {}
    /\ runs = [m \in Modes |-> [NewRun EXCEPT !.pc = "idle"]]

\* the write-back guard with the dry-run test forgotten
ShouldWrite_ignoresDryRun(totalRemovals, isDry) == totalRemovals > 0
\* if (totalRemovals > 0) { ... if (!dryRun) fs.writeFileSync(...) }
ShouldWrite(totalRemovals, isDry) == totalRemovals > 0 /\ ~isDry

\* processFile with stats.filesModified++ moved under if (!dryRun)
processFile_countsOnlyWrites(r, f, isDry) ==
    LET scanned == [r EXCEPT !.filesScanned = @ + 1] IN
    IF f \in unreadable
    THEN [run |-> scanned, threw |-> TRUE]
    ELSE With(cleanupContent(script, r.disk[f]), LAMBDA out :
         LET counted == [scanned EXCEPT
                           !.removalsByType =
                               [n \in RuleNames |-> @[n] + out.added[n]],
                           !.results = Append(@, [file |-> f,
                                        totalRemovals |-> out.totalRemovals,
                                        added |-> out.added,
                                        modified |-> out.modified])]
             logged == IF out.totalRemovals > 0
                       THEN [counted EXCEPT
                               !.filesModified = IF isDry THEN @ ELSE @ + 1,
                               !.log = Append(@, [kind |-> "removed", file |-> f,
                                                  n |-> out.totalRemovals])]
                       ELSE counted
         IN IF ShouldWrite(out.totalRemovals, isDry)
            THEN IF f \in unwritable
                 THEN [run |-> logged, threw |-> TRUE]
                 ELSE [run |-> [logged EXCEPT !.disk[f] = out.modified,
                                              !.written = @ \cup {f}],
                       threw |-> FALSE]
            ELSE [run |-> logged, threw |-> FALSE])

\* processFile(filePath, dryRun): the run record after the call, and whether
\* the call threw (readFileSync or writeFileSync failed)
processFile(r, f, isDry) ==
    LET scanned == [r EXCEPT !.filesScanned = @ + 1] IN
    IF f \in unreadable
    THEN [run |-> scanned, threw |-> TRUE]
    ELSE With(cleanupContent(script, r.disk[f]), LAMBDA out :
         LET counted == [scanned EXCEPT
                           !.removalsByType =
                               [n \in RuleNames |-> @[n] + out.added[n]],
                           !.results = Append(@, [file |-> f,
                                        totalRemovals |-> out.totalRemovals,
                                        added |-> out.added,
                                        modified |-> out.modified])]
             logged == IF out.totalRemovals > 0
                       THEN [counted EXCEPT
                               !.filesModified = @ + 1,
                               !.log = Append(@, [kind |-> "removed", file |-> f,
                                                  n |-> out.totalRemovals])]
                       ELSE counted
         IN IF ShouldWrite(out.totalRemovals, isDry)
            THEN IF f \in unwritable
                 THEN [run |-> logged, threw |-> TRUE]
                 ELSE [run |-> [logged EXCEPT !.disk[f] = out.modified,
                                              !.written = @ \cup {f}],
                       threw |-> FALSE]
            ELSE [run |-> logged, threw |-> FALSE])

\* await glob(...) resolves: the loop starts
Glob(m) ==
    /\ runs[m].pc = "start"
    /\ runs' = [runs EXCEPT ![m].pc = "loop"]
    /\ UNCHANGED <<script, disk0, unreadable, unwritable, kvars, avars>>

\* await glob(...) rejects: main().catch prints and exits with code 1
GlobFails(m) ==
    /\ runs[m].pc = "start"
    /\ runs' = [runs EXCEPT ![m].pc = "fatal"]
    /\ UNCHANGED <<script, disk0, unreadable, unwritable, kvars, avars>>

\* one iteration of for (const file of files) { try {...} catch {...} }
LoopStep(m) ==
    /\ runs[m].pc = "loop"
    /\ runs[m].i \in Files
    /\ \E res \in {processFile(runs[m], runs[m].i, dryRun(m))} :
         \E after \in {IF res.threw
                       THEN [res.run EXCEPT
                               !.log = Append(@, [kind |-> "error",
                                                  file |-> runs[m].i, n |-> 0])]
                       ELSE res.run} :
            runs' = [runs EXCEPT ![m] = [after EXCEPT !.i = @ + 1]]
    /\ UNCHANGED <<script, disk0, unreadable, unwritable, kvars, avars>>

\* the loop is over: the summary is printed and main resolves
Summary(m) ==
    /\ runs[m].pc = "loop"
    /\ runs[m].i \notin Files
    /\ runs' = [runs EXCEPT ![m].pc = "done"]
    /\ UNCHANGED <<script, disk0, unreadable, unwritable, kvars, avars>>

NextCleanup ==
    \E m \in Modes : Glob(m) \/ GlobFails(m) \/ LoopStep(m) \/ Summary(m)


(***************************************************************************)
(* The audit: metadata values are sequences of characters.                 *)
(***************************************************************************)
\* "This is a great article about many thing" (40 characters)
D_thing ==
    <<"T", "h", "i", "s", " ", "i", "s", " ", "a", " ", "g", "r", "e", "a",
      "t", " ", "a", "r", "t", "i", "c", "l", "e", " ", "a", "b", "o", "u",
      "t", " ", "m", "a", "n", "y", " ", "t", "h", "i", "n", "g">>

\* "This is a great article about many things." (42 characters)
D_things == D_thing \o <<"s", ".">>

\* 81 characters, ends like D_thing
D_longThing == D_thing \o <<" ">> \o D_thing
\* 83 characters, ends like D_things
D_longThings == D_thing \o <<" ">> \o D_things
\* 165 characters, ends with a full stop
D_tooLong == D_longThing \o <<" ">> \o D_longThings

T_plain == <<"H", "i">>
T_entity == <<"A", "&", "a", "m", "p", ";", "B">>
\* a title with more entities than one call can spread
RECURSIVE Entities(_)
Entities(n) == IF n = 0 THEN <<>> ELSE <<"&", "#", "3", "8", ";">> \o Entities(n - 1)
T_huge == Entities(MaxSpreadArgs + 1)
V_url == <<"u">>

FM_good     == [title |-> T_plain, description |-> D_longThings, ogImage |-> V_url,
                ogUrl |-> V_url]
FM_infoOnly == [title |-> T_plain, description |-> D_longThings, ogImage |-> V_url]
FM_warnOnly == [title |-> T_plain, description |-> D_longThings,
                canonicalUrl |-> V_url]
FM_none     == <<>>
FM_thing    == [FM_good EXCEPT !.description = D_thing]
FM_things   == [FM_good EXCEPT !.description = D_things]
FM_long     == [FM_good EXCEPT !.description = D_longThing]
FM_tooLong  == [FM_good EXCEPT !.description = D_tooLong]
FM_entity   == [FM_good EXCEPT !.title = T_entity]
FM_huge     == [FM_good EXCEPT !.title = T_huge]

Frontmatters == {FM_good, FM_infoOnly, FM_warnOnly, FM_none, FM_thing, FM_things,
                 FM_long, FM_tooLong, FM_entity, FM_huge}

\* what readFileSync and parseFrontmatter yield for the files of the site
AuditDocs ==
    { [content |-> <<"h1">>, fm |-> f] : f \in Frontmatters }
    \cup { [content |-> c, fm |-> FM_good] :
             c \in { <<>>, <<"h1", "img", "h1", "imgNoAlt">>,
                     <<"h1", "imgEmptyAlt">> } }

\* String.prototype.trim
RECURSIVE TrimLeft(_)
TrimLeft(str) ==
    IF str # <<>> /\ Head(str) \in CharWS THEN TrimLeft(Tail(str)) ELSE str
RECURSIVE TrimRight(_)
TrimRight(str) ==
    IF str # <<>> /\ str[Len(str)] \in CharWS
    THEN TrimRight(SubSeq(str, 1, Len(str) - 1)) ELSE str
Trim(str) == TrimRight(TrimLeft(str))

EndsWith(str, suffix) ==
    /\ Len(str) >= Len(suffix)
    /\ SubSeq(str, Len(str) - Len(suffix) + 1, Len(str)) = suffix

\* frontmatter.key is a non-empty string
Truthy(fm, key) == key \in DOMAIN fm /\ fm[key] # <<>>
\* !frontmatter.key || frontmatter.key.trim() === ''
MissingOrBlank(fm, key) == ~Truthy(fm, key) \/ Trim(fm[key]) = <<>>

H1_RE       == << <<Lit("h1")>> >>
ImgNoAlt_RE == << <<Lit("imgNoAlt")>> >>
ImgEmpty_RE == << <<Lit("imgEmptyAlt")>> >>
\* /\s\w{1,3}$/
ShortFragment_RE == << <<OneOf(CharWS), Rep(WordChars, 1, 3, FALSE, TRUE), AtEnd>> >>
\* /[.!?"]$/
Terminal_RE == << <<OneOf({".", "!", "?", "\""}), AtEnd>> >>
\* /&#\d+;|&[a-z]+;/i
Entity_RE == << <<Lit("&"), Lit("#"), Plus(Digits), Lit(";")>>,
                <<Lit("&"), Plus(Lower \cup Upper), Lit(";")>> >>

severityLevels == [error |-> 3, warning |-> 2, info |-> 1]
Severities == DOMAIN severityLevels

SEO_CHECKS ==
    << [name |-> "Missing H1 Tag",          severity |-> "error",   details |-> FALSE],
       [name |-> "Multiple H1 Tags",        severity |-> "warning", details |-> TRUE],
       [name |-> "Missing Title",           severity |-> "error",   details |-> FALSE],
       [name |-> "Missing Description",     severity |-> "error",   details |-> FALSE],
       [name |-> "Truncated Description",   severity |-> "warning", details |-> TRUE],
       [name |-> "Description Too Short",   severity |-> "warning", details |-> TRUE],
       [name |-> "Description Too Long",    severity |-> "info",    details |-> TRUE],
       [name |-> "Missing OG Image",        severity |-> "warning", details |-> FALSE],
       [name |-> "Images Missing Alt Text", severity |-> "warning", details |-> TRUE],
       [name |-> "Contains HTML Entities",  severity |-> "warning", details |-> TRUE],
       [name |-> "Missing Canonical URL",   severity |-> "info",    details |-> FALSE] >>

CheckNames == { SEO_CHECKS[k].name : k \in DOMAIN SEO_CHECKS }

\* the check with the length guard at 30 instead of 50
TruncatedDescription_guard30(fm) ==
    IF ~Truthy(fm, "description") THEN FALSE
    ELSE LET desc == Trim(fm.description) IN
         /\ Len(desc) > 30
         /\ \/ EndsWith(desc, <<".", ".", ".">>)
            \/ Test(ShortFragment_RE, desc)
            \/ ~Test(Terminal_RE, desc)
\* SEO_CHECKS['Truncated Description'].check
TruncatedDescription(fm) ==
    IF ~Truthy(fm, "description") THEN FALSE
    ELSE LET desc == Trim(fm.description) IN
         /\ Len(desc) > 50
         /\ \/ EndsWith(desc, <<".", ".", ".">>)
            \/ Test(ShortFragment_RE, desc)
            \/ ~Test(Terminal_RE, desc)

\* check.check(content, frontmatter), as a truth value
check(name, content, fm) ==
    CASE name = "Missing H1 Tag" -> ~Test(H1_RE, content)
      [] name = "Multiple H1 Tags" -> Len(MatchAll(H1_RE, content)) > 1
      [] name = "Missing Title" -> MissingOrBlank(fm, "title")
      [] name = "Missing Description" -> MissingOrBlank(fm, "description")
      [] name = "Truncated Description" -> TruncatedDescription(fm)
      [] name = "Description Too Short" ->
            Truthy(fm, "description") /\ Len(fm.description) < 50
      [] name = "Description Too Long" ->
            Truthy(fm, "description") /\ Len(fm.description) > 160
      [] name = "Missing OG Image" -> MissingOrBlank(fm, "ogImage")
      [] name = "Images Missing Alt Text" ->
            \/ Len(MatchAll(ImgNoAlt_RE, content)) > 0
            \/ Len(MatchAll(ImgEmpty_RE, content)) > 0
      [] name = "Contains HTML Entities" ->
            \/ Truthy(fm, "title") /\ Test(Entity_RE, fm.title)
            \/ Truthy(fm, "description") /\ Test(Entity_RE, fm.description)
      [] name = "Missing Canonical URL" ->
            ~Truthy(fm, "ogUrl") /\ ~Truthy(fm, "canonicalUrl")

\* the texts a global match returns
MatchedTexts(re, str) ==
    LET spans == MatchAll(re, str) IN
    [j \in 1..Len(spans) |-> SubSeq(str, spans[j][1], spans[j][2] - 1)]

RECURSIVE Dedup(_, _)
Dedup(seq, seen) ==
    IF seq = <<>> THEN <<>>
    ELSE IF Head(seq) \in seen THEN Dedup(Tail(seq), seen)
    ELSE <<Head(seq)>> \o Dedup(Tail(seq), seen \cup {Head(seq)})

RECURSIVE Join(_)
Join(seq) ==
    IF seq = <<>> THEN <<>>
    ELSE IF Len(seq) = 1 THEN Head(seq)
    ELSE Head(seq) \o <<",", " ">> \o Join(Tail(seq))

\* entities.push(...matches) throws a RangeError when matches holds more
\* elements than the engine passes as arguments
SpreadThrows(matches) == Len(matches) > MaxSpreadArgs

Detail(text) == [threw |-> FALSE, null |-> FALSE, text |-> text]
NoDetail     == [threw |-> FALSE, null |-> TRUE, text |-> <<>>]
DetailThrew  == [threw |-> TRUE, null |-> TRUE, text |-> <<>>]

\* check.details(content, frontmatter)
details(name, content, fm) ==
    CASE name = "Multiple H1 Tags" ->
            Detail(<<"Found ", ToString(Len(MatchAll(H1_RE, content))), " h1 tags">>)
      [] name = "Truncated Description" ->
            Detail(<<"\"">> \o SubSeq(fm.description, 1, Min(80, Len(fm.description)))
                   \o <<".", ".", ".", "\"">>)
      [] name \in {"Description Too Short", "Description Too Long"} ->
            Detail(<<ToString(Len(fm.description)), " chars (recommended: 120-160)">>)
      [] name = "Images Missing Alt Text" ->
            Detail(<<ToString(Len(MatchAll(ImgNoAlt_RE, content))), " missing, ",
                     ToString(Len(MatchAll(ImgEmpty_RE, content))), " empty">>)
      [] name = "Contains HTML Entities" ->
            LET titleMatches == IF Truthy(fm, "title")
                                THEN MatchedTexts(Entity_RE, fm.title) ELSE <<>>
                descMatches  == IF Truthy(fm, "description")
                                THEN MatchedTexts(Entity_RE, fm.description) ELSE <<>>
            IN IF SpreadThrows(titleMatches) \/ SpreadThrows(descMatches)
               THEN DetailThrew
               ELSE Detail(<<"Found: ">> \o Join(Dedup(titleMatches \o descMatches, {})))

\* const minLevel = severityLevels[minSeverity] || 1
minLevel(minSeverity) ==
    IF minSeverity \in DOMAIN severityLevels THEN severityLevels[minSeverity] ELSE 1

\* the filter with the comparison turned round
Skipped_reversed(c, lvl) == severityLevels[c.severity] > lvl
\* if (severityLevels[check.severity] < minLevel) continue
Skipped(c, lvl) == severityLevels[c.severity] < lvl

\* the counters with the per-severity increment left out
CountIssue_typeOnly(acc, c) ==
    [acc EXCEPT !.issuesByType[c.name] = @ + 1]
\* stats.issuesByType[check.name] = (... || 0) + 1; stats.issuesBySeverity[...]++
CountIssue(acc, c) ==
    [acc EXCEPT !.issuesByType[c.name] = @ + 1,
                !.issuesBySeverity[c.severity] = @ + 1]

\* for (const check of SEO_CHECKS) {...}, from check k on.  acc holds the
\* file's issues, the two counters of stats, and the name of the check whose
\* details call threw ("" for none): the throw leaves the loop.
RECURSIVE RunChecks(_, _, _, _, _)
RunChecks(k, content, fm, lvl, acc) ==
    IF k > Len(SEO_CHECKS) THEN acc
    ELSE LET c == SEO_CHECKS[k] IN
         IF Skipped(c, lvl) THEN RunChecks(k + 1, content, fm, lvl, acc)
         ELSE IF ~check(c.name, content, fm)
         THEN RunChecks(k + 1, content, fm, lvl, acc)
         ELSE With(IF c.details THEN details(c.name, content, fm) ELSE NoDetail,
                   LAMBDA d :
                IF d.threw THEN [acc EXCEPT !.threw = c.name]
                ELSE With(CountIssue(
                            [acc EXCEPT !.fileIssues =
                               Append(@, [check |-> c.name, severity |-> c.severity,
                                          details |-> [null |-> d.null,
                                                       text |-> d.text]])],
                            c),
                          LAMBDA next : RunChecks(k + 1, content, fm, lvl, next)))

\* stats.fileIssues.sort((a, b) => b.issues.length - a.issues.length), stable
RECURSIVE InsertByIssues(_, _)
InsertByIssues(sorted, e) ==
    IF sorted = <<>> THEN <<e>>
    ELSE IF Len(Head(sorted).issues) >= Len(e.issues)
         THEN <<Head(sorted)>> \o InsertByIssues(Tail(sorted), e)
         ELSE <<e>> \o sorted
RECURSIVE SortByIssues(_)
SortByIssues(seq) ==
    IF seq = <<>> THEN <<>>
    ELSE InsertByIssues(SortByIssues(SubSeq(seq, 1, Len(seq) - 1)), seq[Len(seq)])

NoThrow == [kind |-> "none", file |-> 0, check |-> ""]
NewStats ==
    [filesScanned |-> 0,
     issuesByType |-> [n \in CheckNames |-> 0],
     issuesBySeverity |-> [error |-> 0, warning |-> 0, info |-> 0],
     fileIssues |-> <<>>]

\* process.argv holds --severity=<level>; "verbose" is a level the script
\* does not know
SeverityArgs == {"error", "warning", "info", "verbose"}

InitAudit ==
    /\ a_pc = "start"
    /\ a_n = 0
    /\ a_i = 1
    /\ a_minSeverity \in SeverityArgs
    /\ a_stats = NewStats
    /\ a_seen = <<>>
    /\ a_thrown = NoThrow

IdleAudit ==
    /\ a_pc = "idle"
    /\ a_n = 0
    /\ a_i = 1
    /\ a_minSeverity = "info"
    /\ a_stats = NewStats
    /\ a_seen = <<>>
    /\ a_thrown = NoThrow

\* await glob('**/index.html') resolves with n files
AuditGlob(n) ==
    /\ a_pc = "start"
    /\ a_pc' = "loop"
    /\ a_n' = n
    /\ UNCHANGED <<a_i, a_minSeverity, a_stats, a_seen, a_thrown, cvars, kvars>>

\* await glob(...) rejects: main().catch, exit code 1
AuditGlobFails ==
    /\ a_pc = "start"
    /\ a_pc' = "fatal"
    /\ a_thrown' = [kind |-> "glob", file |-> 0, check |-> ""]
    /\ UNCHANGED <<a_n, a_i, a_minSeverity, a_stats, a_seen, cvars, kvars>>

\* fs.readFileSync throws inside the loop: nothing catches it before
\* main().catch, exit code 1
AuditReadFails ==
    /\ a_pc = "loop"
    /\ a_i <= a_n
    /\ a_pc' = "fatal"
    /\ a_thrown' = [kind |-> "read", file |-> a_i, check |-> ""]
    /\ UNCHANGED <<a_n, a_i, a_minSeverity, a_stats, a_seen, cvars, kvars>>

\* one iteration of for (const file of files) {...} on a file that reads as doc
AuditFile(doc) ==
    /\ a_pc = "loop"
    /\ a_i <= a_n
    /\ \E res \in {RunChecks(1, doc.content, doc.fm, minLevel(a_minSeverity),
                              [fileIssues |-> <<>>,
                               issuesByType |-> a_stats.issuesByType,
                               issuesBySeverity |-> a_stats.issuesBySeverity,
                               threw |-> ""])} :
         \E counted \in {[a_stats EXCEPT !.filesScanned = @ + 1,
                                         !.issuesByType = res.issuesByType,
                                         !.issuesBySeverity = res.issuesBySeverity]} :
          /\ a_seen' = Append(a_seen, doc)
          /\ IF res.threw # ""
             THEN /\ a_pc' = "fatal"
                  /\ a_thrown' = [kind |-> "details", file |-> a_i, check |-> res.threw]
                  /\ a_stats' = counted
                  /\ UNCHANGED a_i
             ELSE /\ a_stats' =
                        IF Len(res.fileIssues) > 0
                        THEN [counted EXCEPT !.fileIssues =
                                Append(@, [file |-> a_i,
                                           title |-> IF Truthy(doc.fm, "title")
                                                     THEN doc.fm.title
                                                     ELSE <<"(no title)">>,
                                           issues |-> res.fileIssues])]
                        ELSE counted
                  /\ a_i' = a_i + 1
                  /\ UNCHANGED <<a_pc, a_thrown>>
    /\ UNCHANGED <<a_n, a_minSeverity, cvars, kvars>>

\* after the loop: --json prints stats as they are; otherwise the report
\* sorts stats.fileIssues before printing
AuditReport(jsonOutput) ==
    /\ a_pc = "loop"
    /\ a_i > a_n
    /\ a_pc' = "done"
    /\ a_stats' = IF jsonOutput THEN a_stats
                  ELSE [a_stats EXCEPT !.fileIssues = SortByIssues(@)]
    /\ UNCHANGED <<a_n, a_i, a_minSeverity, a_seen, a_thrown, cvars, kvars>>

NextAudit ==
    \/ \E n \in 0..MaxAuditFiles : AuditGlob(n)
    \/ AuditGlobFails
    \/ AuditReadFails
    \/ \E doc \in AuditDocs : AuditFile(doc)
    \/ \E jsonOutput \in BOOLEAN : AuditReport(jsonOutput)

NextContent == FirstPass \/ SecondPass

(***************************************************************************)
(* Specifications.                                                         *)
(***************************************************************************)
InitC == InitCleanup /\ IdleContent /\ IdleAudit
InitK == IdleCleanup /\ InitContent /\ IdleAudit
InitA == IdleCleanup /\ IdleContent /\ InitAudit

SpecCleanup == InitC /\ [][NextCleanup]_vars
SpecContent == InitK /\ [][NextContent]_vars
SpecAudit   == InitA /\ [][NextAudit]_vars

(***************************************************************************)
(* Properties of the cleanup run (SpecCleanup).                            *)
(***************************************************************************)
RECURSIVE SumNums(_)
SumNums(nums) == IF nums = <<>> THEN 0 ELSE Head(nums) + SumNums(Tail(nums))
SumSeq(seq, F(_)) == SumNums([k \in DOMAIN seq |-> F(seq[k])])

IsRemovedLine(l) == l.kind = "removed"
RemovedLines(m) == SelectSeq(runs[m].log, IsRemovedLine)
TotalOf(res) == res.totalRemovals
OneIfRemoved(res) == IF res.totalRemovals > 0 THEN 1 ELSE 0
AddedOf(res) == SumOver(res.added, RuleNames)
BothDone == runs["dry"].pc = "done" /\ runs["real"].pc = "done"

\* C2: a dry run and a real run started on the same files end with the same
\* filesScanned, filesModified, removalsByType and per-file totalRemovals
\* (as returned and as reported in the log).
C2_DryRunEquivalence ==
    BothDone =>
        /\ runs["dry"].filesScanned = runs["real"].filesScanned
        /\ runs["dry"].filesModified = runs["real"].filesModified
        /\ runs["dry"].removalsByType = runs["real"].removalsByType
        /\ runs["dry"].results = runs["real"].results
        /\ RemovedLines("dry") = RemovedLines("real")

C2_Witness ==
    /\ BothDone
    /\ runs["real"].filesModified > 0
    /\ runs["real"].written # {}
    /\ runs["real"].disk # runs["dry"].disk
    /\ runs["dry"].disk = disk0

\* C3: a file is written back only by the real run and only when its
\* totalRemovals is greater than 0, and then holds the text cleanupContent
\* returned for it; every file not written back holds the content the run
\* started from.
C3_WriteOnlyRealRemovals ==
    \A m \in Modes : \A f \in Files :
        /\ f \in runs[m].written =>
              /\ ~dryRun(m)
              /\ \E k \in DOMAIN runs[m].results :
                    /\ runs[m].results[k].file = f
                    /\ runs[m].results[k].totalRemovals > 0
                    /\ runs[m].disk[f] = runs[m].results[k].modified
        /\ f \notin runs[m].written => runs[m].disk[f] = disk0[f]

C3_Witness ==
    /\ BothDone
    /\ \E f \in Files : \E g \in Files :
          /\ f \in runs["real"].written
          /\ runs["real"].disk[f] # disk0[f]
          /\ g \notin unreadable
          /\ g \notin runs["real"].written
          /\ \E k \in DOMAIN runs["dry"].results :
                /\ runs["dry"].results[k].file = f
                /\ runs["dry"].results[k].totalRemovals > 0

\* C9: each call's totalRemovals is the sum of the amounts it added to
\* removalsByType; so the counts of removalsByType sum to the totalRemovals
\* of the files processed so far, and filesModified is the number of those
\* with totalRemovals > 0.
C9_TotalsAgree ==
    \A m \in Modes :
        /\ \A k \in DOMAIN runs[m].results :
              runs[m].results[k].totalRemovals = AddedOf(runs[m].results[k])
        /\ SumOver(runs[m].removalsByType, RuleNames)
              = SumSeq(runs[m].results, TotalOf)
        /\ runs[m].filesModified = SumSeq(runs[m].results, OneIfRemoved)

C9_Witness ==
    \E m \in Modes :
        /\ runs[m].pc = "done"
        /\ Len(runs[m].results) >= 2
        /\ \E k \in DOMAIN runs[m].results : runs[m].results[k].totalRemovals >= 2
        /\ \E k \in DOMAIN runs[m].results : runs[m].results[k].totalRemovals = 0
        /\ runs[m].filesModified = 1

\* C10: at the end of a real run filesModified is the number of files whose
\* content was replaced on disk, and removalsByType counts only the
\* fragments of those files.
WrittenRemovals(res) ==
    IF res.file \in runs["real"].written THEN res.totalRemovals ELSE 0
C10_StatsCountOnlyWrites ==
    runs["real"].pc = "done" =>
        /\ runs["real"].filesModified = Cardinality(runs["real"].written)
        /\ SumOver(runs["real"].removalsByType, RuleNames)
              = SumSeq(runs["real"].results, WrittenRemovals)

(***************************************************************************)
(* Property of cleanupContent applied twice (SpecContent).                 *)
(***************************************************************************)
\* C4: cleanupContent applied to its own output removes nothing and
\* returns it unchanged.
C4_Idempotent ==
    k_pc = "twice" =>
        /\ k_second.totalRemovals = 0
        /\ k_second.modified = k_first.modified

(***************************************************************************)
(* Properties of the audit run (SpecAudit).                                *)
(***************************************************************************)
\* the files whose iteration of the loop has completed
Processed == 1..(a_i - 1)
Entries == { a_stats.fileIssues[j] : j \in DOMAIN a_stats.fileIssues }
\* the names of the findings stored for file k
FindingsOf(k) ==
    UNION { { e.issues[j].check : j \in DOMAIN e.issues } :
              e \in { x \in Entries : x.file = k } }
\* the checks whose predicate holds of a document
Raised(doc) ==
    { SEO_CHECKS[j] : j \in { i \in DOMAIN SEO_CHECKS :
                               check(SEO_CHECKS[i].name, doc.content, doc.fm) } }
\* error > warning > info
SeverityBelow(sev, t) ==
    <<sev, t>> \in { <<"info", "warning">>, <<"info", "error">>, <<"warning", "error">> }
WarningsAudited == ~SeverityBelow("warning", a_minSeverity)

\* C1: a file whose read fails does not abort the run: the loop goes on and
\* the run does not take the fatal exit (in the cleanup the fatal exit is
\* taken only before any file is processed).
C1_PerFileFailureNotFatal ==
    /\ a_thrown.kind = "read" => a_pc # "fatal"
    /\ \A m \in Modes : runs[m].pc = "fatal" => runs[m].filesScanned = 0

\* C5: checks below the threshold leave no finding, no count in
\* issuesByType and no count in issuesBySeverity; a file whose only issues
\* are below the threshold is scanned but gets no entry in fileIssues.
C5_BelowThresholdSuppressed ==
    /\ \A sev \in Severities : SeverityBelow(sev, a_minSeverity) =>
          /\ a_stats.issuesBySeverity[sev] = 0
          /\ \A j \in DOMAIN SEO_CHECKS :
                SEO_CHECKS[j].severity = sev =>
                    a_stats.issuesByType[SEO_CHECKS[j].name] = 0
          /\ \A e \in Entries : \A j \in DOMAIN e.issues : e.issues[j].severity # sev
    /\ \A k \in Processed :
          (\A c \in Raised(a_seen[k]) : SeverityBelow(c.severity, a_minSeverity))
              => FindingsOf(k) = {} /\ ~(\E e \in Entries : e.file = k)
    /\ a_stats.filesScanned = Len(a_seen)

C5_Witness ==
    /\ a_minSeverity = "error"
    /\ a_pc = "done"
    /\ \E k \in Processed :
          /\ Raised(a_seen[k]) # {}
          /\ \A c \in Raised(a_seen[k]) : c.severity = "warning"
          /\ a_stats.filesScanned >= k
          /\ ~(\E e \in Entries : e.file = k)
    /\ \E e \in Entries : TRUE

\* C6 as stated: the check fires for "This is a great article about many
\* thing" and not for "This is a great article about many things."
C6_AsStated ==
    WarningsAudited =>
        \A k \in Processed :
            /\ Truthy(a_seen[k].fm, "description")
                  /\ a_seen[k].fm.description = D_thing
                  => "Truncated Description" \in FindingsOf(k)
            /\ Truthy(a_seen[k].fm, "description")
                  /\ a_seen[k].fm.description = D_things
                  => "Truncated Description" \notin FindingsOf(k)

\* C6 amended: the check fires for neither of the two descriptions (both
\* are no longer than 50 characters: "Description Too Short" fires for
\* them); it fires for a description of more than 50 characters that ends
\* like the first, and not for one that ends like the second.
DescriptionIs(k, d) ==
    Truthy(a_seen[k].fm, "description") /\ a_seen[k].fm.description = d
C6_Amended ==
    WarningsAudited =>
        \A k \in Processed :
            /\ DescriptionIs(k, D_thing) \/ DescriptionIs(k, D_things) =>
                  /\ "Truncated Description" \notin FindingsOf(k)
                  /\ "Description Too Short" \in FindingsOf(k)
            /\ DescriptionIs(k, D_longThing) =>
                  "Truncated Description" \in FindingsOf(k)
            /\ DescriptionIs(k, D_longThings) =>
                  "Truncated Description" \notin FindingsOf(k)

C6_Witness ==
    /\ WarningsAudited
    /\ \E k \in Processed : DescriptionIs(k, D_thing)
    /\ \E k \in Processed : DescriptionIs(k, D_longThing)

\* C7: when a details call throws, the finding is still stored with an
\* absent detail and counted, and the run does not take the fatal exit.
C7_DetailFailureDegrades ==
    a_thrown.kind = "details" =>
        /\ a_pc # "fatal"
        /\ \E e \in Entries :
              /\ e.file = a_thrown.file
              /\ \E j \in DOMAIN e.issues :
                    /\ e.issues[j].check = a_thrown.check
                    /\ e.issues[j].details.null

\* C8: the counts of issuesByType and of issuesBySeverity have the same
\* sum, and between files that sum is the number of findings stored in
\* fileIssues.
IssueCount(e) == Len(e.issues)
C8_CountersAgree ==
    /\ SumOver(a_stats.issuesByType, CheckNames)
          = SumOver(a_stats.issuesBySeverity, Severities)
    /\ a_pc \in {"loop", "done"} =>
          SumOver(a_stats.issuesByType, CheckNames)
              = SumSeq(a_stats.fileIssues, IssueCount)

C8_Witness ==
    /\ a_pc = "done"
    /\ a_minSeverity = "warning"
    /\ Len(a_stats.fileIssues) >= 2
    /\ a_stats.issuesBySeverity["error"] >= 1
    /\ a_stats.issuesBySeverity["warning"] >= 2
    /\ SumSeq(a_stats.fileIssues, IssueCount) >= 4

=============================================================================
